---- MODULE Spec2Model ----
(***************************************************************************)
(* Model of app.py: the Streamlit chat front-end of the Bedrock agent.     *)
(* A text is a sequence of symbols: a symbol is one punctuation character, *)
(* one digit, one whitespace character, or one indivisible run of letters  *)
(* (a word).  The session state, the chat turn (envelope unwrapping,       *)
(* citation injection, commit) and the sidebar rendering (trace steps,     *)
(* citations) are translated from the script.                              *)
(***************************************************************************)
EXTENDS Integers, Sequences, FiniteSets, TLC

(* ------------------------------ texts --------------------------------- *)
Q == "\""
NL == "\n"
WS == {" ", NL}
Digit == {"0", "1", "2", "3", "4", "5", "6", "7", "8", "9"}
Literal == {"null", "true", "false"}
DigitSym == <<"0", "1", "2", "3", "4", "5", "6", "7", "8", "9">>

RECURSIVE str(_)
\* Python str(n) / f"{n}" of a non-negative integer, as a sequence of digits
str(n) == IF n < 10 THEN <<DigitSym[n + 1]>> ELSE str(n \div 10) \o <<DigitSym[(n % 10) + 1]>>

Slice(t, i, j) == IF i > j THEN <<>> ELSE SubSeq(t, i, j)

(* --------------------------- json.loads ------------------------------- *)
\* Every scanner returns the index after the value it scanned, 0 on a
\* JSONDecodeError.
RECURSIVE SkipWs(_, _)
SkipWs(t, i) == IF i <= Len(t) /\ t[i] \in WS THEN SkipWs(t, i + 1) ELSE i

RECURSIVE ScanStringFrom(_, _, _)
\* i is inside a string literal; a raw newline ends the scan with an error
\* in strict mode only.
ScanStringFrom(t, i, strict) ==
    IF i > Len(t) THEN 0
    ELSE IF t[i] = Q THEN i + 1
    ELSE IF strict /\ t[i] = NL THEN 0
    ELSE ScanStringFrom(t, i + 1, strict)

ScanString(t, i, strict) == ScanStringFrom(t, i + 1, strict)

RECURSIVE ScanDigits(_, _)
ScanDigits(t, i) == IF i <= Len(t) /\ t[i] \in Digit THEN ScanDigits(t, i + 1) ELSE i

\* JSON integers: 0 | [1-9][0-9]*
ScanNumber(t, i) == IF t[i] = "0" THEN i + 1 ELSE ScanDigits(t, i)

RECURSIVE ParseValue(_, _, _), ParseMembers(_, _, _), ParseElements(_, _, _)
ParseValue(t, i, strict) ==
    IF i > Len(t) THEN 0
    ELSE IF t[i] = Q THEN ScanString(t, i, strict)
    ELSE IF t[i] \in Digit THEN ScanNumber(t, i)
    ELSE IF t[i] \in Literal THEN i + 1
    ELSE IF t[i] = "{" THEN
        LET j == SkipWs(t, i + 1)
        IN  IF j <= Len(t) /\ t[j] = "}" THEN j + 1 ELSE ParseMembers(t, j, strict)
    ELSE IF t[i] = "[" THEN
        LET j == SkipWs(t, i + 1)
        IN  IF j <= Len(t) /\ t[j] = "]" THEN j + 1 ELSE ParseElements(t, j, strict)
    ELSE 0

\* i is the first symbol of a member `"key" : value`; scans to after the
\* closing brace
ParseMembers(t, i, strict) ==
    IF i > Len(t) \/ t[i] # Q THEN 0
    ELSE LET k == ScanString(t, i, strict)
             c == SkipWs(t, k)
         IN  IF k = 0 \/ c > Len(t) \/ t[c] # ":" THEN 0
             ELSE LET e == ParseValue(t, SkipWs(t, c + 1), strict)
                      n == SkipWs(t, e)
                  IN  IF e = 0 \/ n > Len(t) THEN 0
                      ELSE IF t[n] = "," THEN ParseMembers(t, SkipWs(t, n + 1), strict)
                      ELSE IF t[n] = "}" THEN n + 1
                      ELSE 0

ParseElements(t, i, strict) ==
    LET e == ParseValue(t, i, strict)
        n == SkipWs(t, e)
    IN  IF e = 0 \/ n > Len(t) THEN 0
        ELSE IF t[n] = "," THEN ParseElements(t, SkipWs(t, n + 1), strict)
        ELSE IF t[n] = "]" THEN n + 1
        ELSE 0

\* json.loads raises JSONDecodeError: no value, or extra data after it
JSONDecodeError(t, strict) ==
    LET e == ParseValue(t, SkipWs(t, 1), strict)
    IN  e = 0 \/ SkipWs(t, e) # Len(t) + 1

\* The Python type of the JSON value that starts at i
TypeAt(t, i) ==
    IF t[i] = Q THEN "str"
    ELSE IF t[i] \in Digit THEN "int"
    ELSE IF t[i] = "null" THEN "NoneType"
    ELSE IF t[i] \in Literal THEN "bool"
    ELSE IF t[i] = "{" THEN "dict"
    ELSE "list"

\* A Python value: its type and, for a str, its characters; for any other
\* type, the JSON text it was decoded from.
PyValue(t, i, strict) ==
    LET e == ParseValue(t, i, strict)
    IN  IF t[i] = Q THEN [type |-> "str", chars |-> Slice(t, i + 1, e - 2)]
        ELSE [type |-> TypeAt(t, i), chars |-> Slice(t, i, e - 1)]

PyStr(t) == [type |-> "str", chars |-> t]

RECURSIVE Members(_, _, _)
\* The members of the object whose first member starts at i, in order:
\* <<key, index of the value>>
Members(t, i, strict) ==
    IF t[i] = "}" THEN <<>>
    ELSE LET k == ScanString(t, i, strict)
             v == SkipWs(t, SkipWs(t, k) + 1)
             n == SkipWs(t, ParseValue(t, v, strict))
         IN  <<[key |-> Slice(t, i + 1, k - 2), at |-> v]>>
             \o (IF t[n] = "," THEN Members(t, SkipWs(t, n + 1), strict) ELSE <<>>)

RECURSIVE Elements(_, _, _)
\* The indexes of the elements of the array whose first element starts at i
Elements(t, i, strict) ==
    IF t[i] = "]" THEN <<>>
    ELSE LET n == SkipWs(t, ParseValue(t, i, strict))
         IN  <<i>> \o (IF t[n] = "," THEN Elements(t, SkipWs(t, n + 1), strict) ELSE <<>>)

\* Python `needle in s` for two strings: needle occurs as a substring
IsSubstring(needle, s) ==
    \E i \in 1..(Len(s) - Len(needle) + 1) : SubSeq(s, i, i + Len(needle) - 1) = needle

(* ---------------------- chat turn: envelope -------------------------- *)
INSTRUCTION == <<"instruction">>
RESULT == <<"result">>

\* Python `needle in v` raises TypeError: v is not a container
InRaises(t, i) == TypeAt(t, i) \in {"int", "bool", "NoneType"}

\* Python `needle in v` for the value v at i: a key of a dict, an element of
\* a list, a substring of a str
In(needle, t, i, strict) ==
    LET ty == TypeAt(t, i)
    IN  IF ty = "dict" THEN
            LET ms == Members(t, SkipWs(t, i + 1), strict)
            IN  \E k \in 1..Len(ms) : ms[k].key = needle
        ELSE IF ty = "list" THEN
            LET es == Elements(t, SkipWs(t, i + 1), strict)
            IN  \E k \in 1..Len(es) : PyValue(t, es[k], strict) = PyStr(needle)
        ELSE IsSubstring(needle, PyValue(t, i, strict).chars)

\* Python v[key] with a str key raises TypeError unless v is a dict
GetItemRaises(t, i) == TypeAt(t, i) # "dict"

\* Python v[key] of a dict that has the key: the value of its last member of
\* that name
GetItem(key, t, i, strict) ==
    LET ms == Members(t, SkipWs(t, i + 1), strict)
        last == CHOOSE k \in 1..Len(ms) :
                    /\ ms[k].key = key
                    /\ \A k2 \in (k + 1)..Len(ms) : ms[k2].key # key
    IN  PyValue(t, ms[last].at, strict)

\* Unwrap that looks for the `result` key only
UnwrapResultOnly(raw) ==
    IF JSONDecodeError(raw, FALSE) THEN [raised |-> FALSE, text |-> PyStr(raw)]
    ELSE LET i == SkipWs(raw, 1)
         IN  IF InRaises(raw, i) THEN [raised |-> TRUE, text |-> PyStr(raw)]
             ELSE IF In(RESULT, raw, i, FALSE) THEN
                 IF GetItemRaises(raw, i) THEN [raised |-> TRUE, text |-> PyStr(raw)]
                 ELSE [raised |-> FALSE, text |-> GetItem(RESULT, raw, i, FALSE)]
             ELSE [raised |-> FALSE, text |-> PyStr(raw)]

Unwrap(raw) ==
    IF JSONDecodeError(raw, FALSE) THEN [raised |-> FALSE, text |-> PyStr(raw)]
    ELSE LET i == SkipWs(raw, 1)
         IN  IF InRaises(raw, i) THEN [raised |-> TRUE, text |-> PyStr(raw)]
             ELSE IF In(INSTRUCTION, raw, i, FALSE) /\ In(RESULT, raw, i, FALSE) THEN
                 IF GetItemRaises(raw, i) THEN [raised |-> TRUE, text |-> PyStr(raw)]
                 ELSE [raised |-> FALSE, text |-> GetItem(RESULT, raw, i, FALSE)]
             ELSE [raised |-> FALSE, text |-> PyStr(raw)]

(* ---------------------- chat turn: citations -------------------------- *)
\* The index after a match of %\[(\d+)\]% that starts at i, 0 when none
MatchEnd(t, i) ==
    IF i + 1 <= Len(t) /\ t[i] = "%" /\ t[i + 1] = "[" THEN
        LET k == ScanDigits(t, i + 2)
        IN  IF k > i + 2 /\ k + 1 <= Len(t) /\ t[k] = "]" /\ t[k + 1] = "%"
            THEN k + 2 ELSE 0
    ELSE 0

\* ReSubFrom that replaces the first match only (count=1)
ReSubFromFirstOnly(t, i) ==
    IF i > Len(t) THEN <<>>
    ELSE IF \E j \in i..Len(t) : MatchEnd(t, j) # 0 THEN
        LET j == CHOOSE j \in i..Len(t) :
                     MatchEnd(t, j) # 0 /\ \A j2 \in i..(j - 1) : MatchEnd(t, j2) = 0
            e == MatchEnd(t, j)
        IN  Slice(t, i, j - 1) \o <<"<sup>", "[">> \o Slice(t, j + 2, e - 3) \o <<"]", "</sup>">>
            \o Slice(t, e, Len(t))
    ELSE Slice(t, i, Len(t))

RECURSIVE ReSubFrom(_, _)
ReSubFrom(t, i) ==
    IF i > Len(t) THEN <<>>
    ELSE LET e == MatchEnd(t, i)
         IN  IF e # 0
             THEN <<"<sup>", "[">> \o Slice(t, i + 2, e - 3) \o <<"]", "</sup>">> \o ReSubFrom(t, e)
             ELSE <<t[i]>> \o ReSubFrom(t, i + 1)

\* re.sub(r"%\[(\d+)\]%", r"<sup>[\1]</sup>", t)
ReSub(t) == ReSubFrom(t, 1)

RECURSIVE CitationLocsPerCitation(_, _, _, _)
\* CitationLocs with citation_num incremented in the outer loop
CitationLocsPerCitation(cits, c, r, citation_num) ==
    IF c > Len(cits) THEN <<>>
    ELSE IF r > Len(cits[c].retrievedReferences) THEN
        CitationLocsPerCitation(cits, c + 1, 1, citation_num + 1)
    ELSE <<NL, "<br>", "[">> \o str(citation_num) \o <<"]", " ", cits[c].retrievedReferences[r].uri>>
         \o CitationLocsPerCitation(cits, c, r + 1, citation_num)

RECURSIVE CitationLocs(_, _, _, _)
\* The loops over citations (c) and their retrievedReferences (r), with the
\* running citation_num
CitationLocs(cits, c, r, citation_num) ==
    IF c > Len(cits) THEN <<>>
    ELSE IF r > Len(cits[c].retrievedReferences) THEN CitationLocs(cits, c + 1, 1, citation_num)
    ELSE <<NL, "<br>", "[">> \o str(citation_num) \o <<"]", " ", cits[c].retrievedReferences[r].uri>>
         \o CitationLocs(cits, c, r + 1, citation_num + 1)

\* AddCitations with the substitution moved out of the `if`
AddCitationsAlwaysSub(output_text, cits) ==
    IF output_text.type # "str" THEN [raised |-> TRUE, text |-> output_text]
    ELSE IF Len(cits) > 0 THEN
        [raised |-> FALSE,
         text |-> PyStr(ReSub(output_text.chars) \o <<NL>> \o CitationLocs(cits, 1, 1, 1))]
    ELSE [raised |-> FALSE, text |-> PyStr(ReSub(output_text.chars))]

AddCitations(output_text, cits) ==
    IF Len(cits) > 0 THEN
        IF output_text.type # "str" THEN [raised |-> TRUE, text |-> output_text]
        ELSE [raised |-> FALSE,
              text |-> PyStr(ReSub(output_text.chars) \o <<NL>> \o CitationLocs(cits, 1, 1, 1))]
    ELSE [raised |-> FALSE, text |-> output_text]

(* -------------------------- trace sidebar ---------------------------- *)
\* A stored trace is a function from the trace kinds it has to their event
\* lists.  An event is a function from the keys it has (info fields and the
\* top-level "traceId") to the traceId found there; an info field that is
\* present carries a traceId.
Phases == <<"Pre-Processing", "Orchestration", "Post-Processing">>

trace_types_map ==
    [h \in {"Pre-Processing", "Orchestration", "Post-Processing"} |->
        IF h = "Pre-Processing" THEN <<"preGuardrailTrace", "preProcessingTrace">>
        ELSE IF h = "Orchestration" THEN <<"orchestrationTrace">>
        ELSE <<"postProcessingTrace", "postGuardrailTrace">>]

trace_info_types_map ==
    [k \in {"preProcessingTrace", "orchestrationTrace", "postProcessingTrace"} |->
        IF k = "preProcessingTrace" THEN <<"modelInvocationInput", "modelInvocationOutput">>
        ELSE IF k = "orchestrationTrace" THEN
            <<"invocationInput", "modelInvocationInput", "modelInvocationOutput",
              "observation", "rationale">>
        ELSE <<"modelInvocationInput", "modelInvocationOutput", "observation">>]

\* KeyIndex that never finds the key
KeyIndexAbsent(trace_steps, trace_id) == 0

\* Position of trace_id among the keys of the dict trace_steps, 0 when absent
KeyIndex(trace_steps, trace_id) ==
    IF \E n \in 1..Len(trace_steps) : trace_steps[n].trace_id = trace_id
    THEN CHOOSE n \in 1..Len(trace_steps) : trace_steps[n].trace_id = trace_id
    ELSE 0

\* AppendStep that moves the step of a traceId seen again to the end
AppendStepMoveToEnd(trace_steps, trace_id, item) ==
    LET n == KeyIndex(trace_steps, trace_id)
    IN  IF n = 0 THEN Append(trace_steps, [trace_id |-> trace_id, items |-> <<item>>])
        ELSE Slice(trace_steps, 1, n - 1) \o Slice(trace_steps, n + 1, Len(trace_steps))
             \o <<[trace_id |-> trace_id, items |-> Append(trace_steps[n].items, item)]>>

\* trace_steps[trace_id] = [item] if absent, else trace_steps[trace_id].append(item)
AppendStep(trace_steps, trace_id, item) ==
    LET n == KeyIndex(trace_steps, trace_id)
    IN  IF n = 0 THEN Append(trace_steps, [trace_id |-> trace_id, items |-> <<item>>])
        ELSE [trace_steps EXCEPT ![n].items = Append(@, item)]

\* trace_steps[trace_id] = [item]: a key that exists keeps its position
AssignStep(trace_steps, trace_id, item) ==
    LET n == KeyIndex(trace_steps, trace_id)
    IN  IF n = 0 THEN Append(trace_steps, [trace_id |-> trace_id, items |-> <<item>>])
        ELSE [trace_steps EXCEPT ![n].items = <<item>>]

\* Index in the info-field list of the first field the event has, 0 when none
FirstInfoType(trace_type, event) ==
    LET fs == trace_info_types_map[trace_type]
    IN  IF \E j \in 1..Len(fs) : fs[j] \in DOMAIN event
        THEN CHOOSE j \in 1..Len(fs) :
                 /\ fs[j] \in DOMAIN event
                 /\ \A j2 \in 1..(j - 1) : fs[j2] \notin DOMAIN event
        ELSE 0

RECURSIVE GroupEvents(_, _, _, _)
\* The loop over the events of one trace kind, from event k on; an item is
\* the event at `index`, wrapped in {trace_type: event} or not.
GroupEvents(events, trace_type, k, trace_steps) ==
    IF k > Len(events) THEN [raised |-> FALSE, trace_steps |-> trace_steps]
    ELSE IF trace_type \in DOMAIN trace_info_types_map THEN
        LET j == FirstInfoType(trace_type, events[k])
        IN  IF j = 0 THEN GroupEvents(events, trace_type, k + 1, trace_steps)
            ELSE GroupEvents(events, trace_type, k + 1,
                     AppendStep(trace_steps, events[k][trace_info_types_map[trace_type][j]],
                                [wrapped |-> FALSE, index |-> k]))
    ELSE IF "traceId" \notin DOMAIN events[k] THEN [raised |-> TRUE, trace_steps |-> trace_steps]
    ELSE GroupEvents(events, trace_type, k + 1,
             AssignStep(trace_steps, events[k]["traceId"], [wrapped |-> TRUE, index |-> k]))

\* ShowSteps that numbers the steps of each trace kind from 1
ShowStepsRestart(trace_steps, trace_type, step_num) ==
    [n \in 1..Len(trace_steps) |->
        [step_num |-> n, trace_type |-> trace_type,
         trace_id |-> trace_steps[n].trace_id, items |-> trace_steps[n].items]]

\* The expanders of one trace kind, numbered from step_num on
ShowSteps(trace_steps, trace_type, step_num) ==
    [n \in 1..Len(trace_steps) |->
        [step_num |-> step_num + n - 1, trace_type |-> trace_type,
         trace_id |-> trace_steps[n].trace_id, items |-> trace_steps[n].items]]

RECURSIVE RenderTraceTypes(_, _, _, _)
\* The loop over the trace kinds of one phase, from kind j on; out is what
\* the phase has shown so far
RenderTraceTypes(trace, j, step_num, out) ==
    LET trace_types == trace_types_map[out.header]
    IN  IF j > Len(trace_types) THEN
            [raised |-> FALSE, step_num |-> step_num,
             out |-> [out EXCEPT !.none = ~out.has_trace]]
        ELSE IF trace_types[j] \in DOMAIN trace THEN
            LET g == GroupEvents(trace[trace_types[j]], trace_types[j], 1, <<>>)
            IN  IF g.raised THEN
                    [raised |-> TRUE, step_num |-> step_num,
                     out |-> [out EXCEPT !.has_trace = TRUE]]
                ELSE RenderTraceTypes(trace, j + 1, step_num + Len(g.trace_steps),
                         [out EXCEPT !.has_trace = TRUE,
                                     !.steps = @ \o ShowSteps(g.trace_steps, trace_types[j], step_num)])
        ELSE RenderTraceTypes(trace, j + 1, step_num, out)

RECURSIVE RenderPhases(_, _, _)
\* The loop over the phases, from phase p on
RenderPhases(trace, p, step_num) ==
    IF p > Len(Phases) THEN [raised |-> FALSE, phases |-> <<>>]
    ELSE LET r == RenderTraceTypes(trace, 1, step_num,
                      [header |-> Phases[p], has_trace |-> FALSE, steps |-> <<>>, none |-> FALSE])
         IN  IF r.raised THEN [raised |-> TRUE, phases |-> <<r.out>>]
             ELSE LET rest == RenderPhases(trace, p + 1, r.step_num)
                  IN  [raised |-> rest.raised, phases |-> <<r.out>> \o rest.phases]

RenderTrace(trace) == RenderPhases(trace, 1, 1)

(* ------------------------ citations sidebar --------------------------- *)
RECURSIVE CitationEntries(_, _, _, _)
CitationEntries(cits, c, r, citation_num) ==
    IF c > Len(cits) THEN <<>>
    ELSE IF r > Len(cits[c].retrievedReferences) THEN CitationEntries(cits, c + 1, 1, citation_num)
    ELSE <<[citation_num |-> citation_num,
            generatedResponsePart |-> cits[c].generatedResponsePart,
            retrievedReference |-> cits[c].retrievedReferences[r]]>>
         \o CitationEntries(cits, c, r + 1, citation_num + 1)

\* The whole sidebar of one script run; an exception in the trace section
\* ends the run before the citations section
NotRendered == [rendered |-> FALSE, raised |-> FALSE, phases |-> <<>>,
                citations_none |-> FALSE, citations |-> <<>>]

RenderSidebar(trace, cits) ==
    LET t == RenderTrace(trace)
    IN  IF t.raised THEN
            [rendered |-> TRUE, raised |-> TRUE, phases |-> t.phases,
             citations_none |-> FALSE, citations |-> <<>>]
        ELSE [rendered |-> TRUE, raised |-> FALSE, phases |-> t.phases,
              citations_none |-> Len(cits) = 0,
              citations |-> IF Len(cits) > 0 THEN CitationEntries(cits, 1, 1, 1) ELSE <<>>]

(* ------------------------------ inputs -------------------------------- *)
MaxTurns == 2
MaxUuids == 3
MaxCitations == 2
MaxRefs == 2
MaxEvents == 3

Prompts == {<<"hello">>, <<"book", " ", "room">>}

\* Raw output_text values of the agent
RawTexts ==
    { <<>>,
      <<"hello">>,
      <<"hello", "%", "[", "1", "]", "%">>,
      <<"%", "[", "1", "2", "]", "%", "%", "[", "3", "]", "%", " ", "room">>,
      <<"%", "[", "1", "]", "%", "[", "2", "]", "%">>,
      <<"%", "[", "]", "%", " ", "%", "[", "1", "]">>,
      <<"{", Q, "instruction", Q, ":", Q, "book", Q, ",", Q, "result", Q, ":", Q, "room", Q, "}">>,
      <<" ", "{", Q, "result", Q, ":", Q, "room", "%", "[", "2", "]", "%", Q, ",", " ",
        Q, "instruction", Q, ":", Q, "book", Q, "}", NL>>,
      <<"{", Q, "instruction", Q, ":", Q, "book", Q, ",", Q, "result", Q, ":", Q, "room", NL, "hello", Q, "}">>,
      <<"{", Q, "instruction", Q, ":", Q, "book", Q, ",", Q, "result", Q, ":", Q, "room", Q, ",",
        Q, "result", Q, ":", Q, "hello", Q, "}">>,
      <<"{", Q, "instruction", Q, ":", Q, "book", Q, ",", Q, "result", Q, ":", "4", "2", "}">>,
      <<"{", Q, "instruction", Q, ":", "null", ",", Q, "result", Q, ":", "{", Q, "room", Q, ":", "[", "1", "]", "}", "}">>,
      <<"{", Q, "instruction", Q, ":", Q, "book", Q, ",", Q, "result", Q, ":", Q, "room", Q>>,
      <<"{", Q, "instruction", Q, ":", Q, "book", Q, ",", Q, "result", Q, ":", Q, "room", Q, "}", "hello">>,
      <<"{", Q, "room", Q, ":", Q, "book", Q, "}">>,
      <<"{", Q, "result", Q, ":", Q, "room", Q, "}">>,
      <<"{", Q, "instruction", Q, ":", Q, "book", Q, ",", Q, "room", Q, ":", Q, "result", Q, "}">>,
      <<"{", "}">>,
      <<"4", "2">>,
      <<"null">>,
      <<"true">>,
      <<Q, "hello", Q>>,
      <<Q, "instruction", Q>>,
      <<Q, "instruction", " ", "result", Q>>,
      <<"[", "1", ",", "2", "]">>,
      <<"[", Q, "instruction", Q, "]">>,
      <<"[", Q, "instruction", Q, ",", Q, "result", Q, "]">>,
      <<"[", "[", Q, "instruction", Q, ",", Q, "result", Q, "]", "]">> }

URIs == {"s3://a", "s3://b"}

RECURSIVE SeqsUpTo(_, _)
\* The sequences over S of length at most n
SeqsUpTo(S, n) ==
    IF n = 0 THEN {<<>>}
    ELSE LET shorter == SeqsUpTo(S, n - 1)
         IN  shorter \cup {Append(q, x) : q \in shorter, x \in S}

References == {[uri |-> u] : u \in URIs}

Citations ==
    {[generatedResponsePart |-> "span", retrievedReferences |-> refs] :
        refs \in SeqsUpTo(References, MaxRefs)}

CitationLists == SeqsUpTo(Citations, MaxCitations)

TraceKinds == <<"preGuardrailTrace", "preProcessingTrace", "orchestrationTrace",
                "postProcessingTrace", "postGuardrailTrace">>

NoKeys == <<>>

\* Events of a trace kind: with no key at all, with one key, with the first
\* two info fields carrying different traceIds
EventsOf(trace_type) ==
    IF trace_type \in DOMAIN trace_info_types_map THEN
        LET f1 == trace_info_types_map[trace_type][1]
            f2 == trace_info_types_map[trace_type][2]
        IN  {NoKeys, f1 :> "t1", f1 :> "t2", f2 :> "t1", (f1 :> "t1") @@ (f2 :> "t2")}
    ELSE {NoKeys, "traceId" :> "t1", "traceId" :> "t2"}

\* What a trace mapping has for one kind: no key, or a list of at most n
\* events
KindOptions(trace_type, n) ==
    {[present |-> FALSE, events |-> <<>>]}
    \cup {[present |-> TRUE, events |-> events] : events \in SeqsUpTo(EventsOf(trace_type), n)}

\* The trace mapping that has, for the k-th kind, what options[k] says
TraceOf(options) ==
    [trace_type \in {TraceKinds[k] : k \in {k2 \in 1..Len(TraceKinds) : options[k2].present}} |->
        options[CHOOSE k \in 1..Len(TraceKinds) : TraceKinds[k] = trace_type].events]

Response(text, cits, tr) == [output_text |-> text, citations |-> cits, trace |-> tr]

\* Responses of the agent in the session machine
SessionResponses ==
    {Response(text, cits, tr) :
        text \in { <<"hello", "%", "[", "1", "]", "%">>,
                   <<"{", Q, "instruction", Q, ":", Q, "book", Q, ",", Q, "result", Q, ":", Q, "room", Q, "}">>,
                   <<"4", "2">> },
        cits \in { <<>>,
                   <<[generatedResponsePart |-> "span",
                      retrievedReferences |-> <<[uri |-> "s3://a"], [uri |-> "s3://b"]>>]>> },
        tr \in { <<>>,
                 "orchestrationTrace" :> <<"invocationInput" :> "t1">>,
                 ("preGuardrailTrace" :> <<NoKeys>>) @@ ("orchestrationTrace" :> <<"rationale" :> "t1">>) }}

(* --------------------------- session state ---------------------------- *)
VARIABLES
    initialized,   \* st.session_state has items
    session_id,    \* st.session_state.session_id: the n-th uuid generated
    messages,      \* st.session_state.messages
    citations,     \* st.session_state.citations
    trace,         \* st.session_state.trace
    uuids,         \* number of uuid4() values generated so far
    turn,          \* the chat turn of the running or last script run
    sidebar,       \* what the last script run rendered in the sidebar
    past_ids,      \* the session ids the session had before the current one
    turns,         \* number of prompts submitted
    pending        \* the widget event that waits for the running script run

vars == <<initialized, session_id, messages, citations, trace, uuids, turn, sidebar, past_ids, turns,
          pending>>

\* Widget events: the Reset Session button, a prompt typed in the chat input
NoRequest == [kind |-> "none", prompt |-> <<>>]

ResetRequest == [kind |-> "reset", prompt |-> <<>>]

PromptRequest(prompt) == [kind |-> "prompt", prompt |-> prompt]

NoResponse == Response(<<>>, <<>>, <<>>)

Snapshot == [session_id |-> session_id, messages |-> messages,
             citations |-> citations, trace |-> trace]

NoTurn == [status |-> "none", prompt |-> <<>>, raises |-> FALSE, response |-> NoResponse,
           before |-> [session_id |-> 0, messages |-> <<>>, citations |-> <<>>, trace |-> <<>>],
           output_text |-> PyStr(<<>>), raised_in |-> ""]

\* uuid.uuid4(): a value never returned before
uuid4 == uuids + 1

\* init_session_state that forgets to clear the citations
init_session_state_keep_citations ==
    /\ session_id' = uuid4
    /\ uuids' = uuids + 1
    /\ messages' = <<>>
    /\ citations' = citations
    /\ trace' = <<>>
    /\ initialized' = TRUE
    /\ past_ids' = IF initialized THEN past_ids \cup {session_id} ELSE past_ids

init_session_state ==
    /\ session_id' = uuid4
    /\ uuids' = uuids + 1
    /\ messages' = <<>>
    /\ citations' = <<>>
    /\ trace' = <<>>
    /\ initialized' = TRUE
    /\ past_ids' = IF initialized THEN past_ids \cup {session_id} ELSE past_ids

Init ==
    /\ initialized = FALSE
    /\ session_id = 0
    /\ messages = <<>>
    /\ citations = <<>>
    /\ trace = <<>>
    /\ uuids = 0
    /\ turn = NoTurn
    /\ sidebar = NotRendered
    /\ past_ids = {}
    /\ turns = 0
    /\ pending = NoRequest

\* The first script run of a session: no widget has a value yet
PageLoad ==
    /\ ~initialized
    /\ turn.status # "calling"
    /\ init_session_state
    /\ sidebar' = RenderSidebar(trace', citations')
    /\ UNCHANGED <<turn, turns, pending>>

\* ResetSession that also runs while invoke_agent is in flight, the call
\* going on
ResetSessionDuringCall ==
    /\ initialized
    /\ pending.kind \in {"none", "reset"}
    /\ uuids < MaxUuids
    /\ init_session_state
    /\ turn' = IF turn.status = "calling" THEN turn ELSE NoTurn
    /\ pending' = NoRequest
    /\ sidebar' = RenderSidebar(trace', citations')
    /\ UNCHANGED turns

\* A script run started by the Reset Session button, clicked between runs
\* or while the last run was going on
ResetSession ==
    /\ initialized
    /\ turn.status # "calling"
    /\ pending.kind \in {"none", "reset"}
    /\ uuids < MaxUuids
    /\ init_session_state
    /\ turn' = NoTurn
    /\ pending' = NoRequest
    /\ sidebar' = RenderSidebar(trace', citations')
    /\ UNCHANGED turns

\* The user clicks Reset Session or submits a prompt while the script run
\* is inside invoke_agent: the event waits for the run
WidgetDuringCall(request) ==
    /\ turn.status = "calling"
    /\ pending = NoRequest
    /\ request.kind = "reset" => uuids < MaxUuids
    /\ request.kind = "prompt" => turns < MaxTurns
    /\ pending' = request
    /\ UNCHANGED <<initialized, session_id, messages, citations, trace, uuids, turn, sidebar,
                   past_ids, turns>>

\* SubmitPrompt that does not append the user message before the call
SubmitPromptNoAppend(prompt, raises, response) ==
    /\ initialized
    /\ turn.status # "calling"
    /\ pending = NoRequest \/ pending = PromptRequest(prompt)
    /\ turns < MaxTurns
    /\ turns' = turns + 1
    /\ pending' = NoRequest
    /\ turn' = [status |-> "calling", prompt |-> prompt, raises |-> raises,
                response |-> response, before |-> Snapshot,
                output_text |-> PyStr(<<>>), raised_in |-> ""]
    /\ UNCHANGED <<initialized, session_id, messages, citations, trace, uuids, sidebar, past_ids>>

\* A script run started by the chat input, up to the call of invoke_agent;
\* the outcome of the call is the agent's choice; turn.output_text is the
\* local output_text after line 202
SubmitPrompt(prompt, raises, response) ==
    /\ initialized
    /\ turn.status # "calling"
    /\ pending = NoRequest \/ pending = PromptRequest(prompt)
    /\ turns < MaxTurns
    /\ turns' = turns + 1
    /\ pending' = NoRequest
    /\ messages' = Append(messages, [role |-> "user", content |-> PyStr(prompt)])
    /\ turn' = [status |-> "calling", prompt |-> prompt, raises |-> raises,
                response |-> response, before |-> Snapshot,
                output_text |-> PyStr(<<>>), raised_in |-> ""]
    /\ UNCHANGED <<initialized, session_id, citations, trace, uuids, sidebar, past_ids>>

\* Lines 192-215: the text of the assistant message, or an exception
OutputText(response) ==
    LET u == Unwrap(response.output_text)
    IN  IF u.raised THEN u ELSE AddCitations(u.text, response.citations)

\* The statement of the chat turn that raises
RaisedIn(t) ==
    IF t.raises THEN "invoke_agent"
    ELSE IF Unwrap(t.response.output_text).raised THEN "unwrap"
    ELSE IF OutputText(t.response).raised THEN "citations"
    ELSE ""

\* AgentReturn that assigns the message list instead of appending to it
AgentReturnAssign ==
    /\ turn.status = "calling"
    /\ ~turn.raises
    /\ ~OutputText(turn.response).raised
    /\ messages' = <<[role |-> "assistant", content |-> OutputText(turn.response).text]>>
    /\ citations' = turn.response.citations
    /\ trace' = turn.response.trace
    /\ sidebar' = RenderSidebar(trace', citations')
    /\ turn' = [turn EXCEPT !.status = "committed",
                             !.output_text = Unwrap(turn.response.output_text).text]
    /\ UNCHANGED <<initialized, session_id, uuids, past_ids, turns, pending>>

\* AgentReturn that adds the citations and trace of the response to the
\* stored ones instead of replacing them
AgentReturnExtend ==
    /\ turn.status = "calling"
    /\ ~turn.raises
    /\ ~OutputText(turn.response).raised
    /\ messages' = Append(messages, [role |-> "assistant", content |-> OutputText(turn.response).text])
    /\ citations' = citations \o turn.response.citations
    /\ trace' = turn.response.trace @@ trace
    /\ sidebar' = RenderSidebar(trace', citations')
    /\ turn' = [turn EXCEPT !.status = "committed",
                             !.output_text = Unwrap(turn.response.output_text).text]
    /\ UNCHANGED <<initialized, session_id, uuids, past_ids, turns, pending>>

\* invoke_agent returns and the run goes on to its end: lines 192-220, then
\* the sidebar.  st.markdown shows a content that is not a str by its text.
\* A widget event that waits is served after the run when the run is not
\* stopped for it.
AgentReturn ==
    /\ turn.status = "calling"
    /\ ~turn.raises
    /\ ~OutputText(turn.response).raised
    /\ messages' = Append(messages, [role |-> "assistant", content |-> OutputText(turn.response).text])
    /\ citations' = turn.response.citations
    /\ trace' = turn.response.trace
    /\ sidebar' = RenderSidebar(trace', citations')
    /\ turn' = [turn EXCEPT !.status = "committed",
                             !.output_text = Unwrap(turn.response.output_text).text]
    /\ UNCHANGED <<initialized, session_id, uuids, past_ids, turns, pending>>

\* invoke_agent or a later statement before line 217 raises: the run ends
TurnFails ==
    /\ turn.status = "calling"
    /\ turn.raises \/ OutputText(turn.response).raised
    /\ sidebar' = NotRendered
    /\ turn' = [turn EXCEPT !.status = "failed",
                             !.output_text = IF RaisedIn(turn) = "citations"
                                             THEN Unwrap(turn.response.output_text).text ELSE @,
                             !.raised_in = RaisedIn(turn)]
    /\ UNCHANGED <<initialized, session_id, messages, citations, trace, uuids, past_ids, turns,
                   pending>>

\* invoke_agent returns while a widget event waits: the script run is
\* stopped by the exception raised at its next Streamlit call (the exit of
\* st.spinner), before line 192
RunStopped ==
    /\ turn.status = "calling"
    /\ ~turn.raises
    /\ pending # NoRequest
    /\ sidebar' = NotRendered
    /\ turn' = [turn EXCEPT !.status = "failed", !.raised_in = "rerun"]
    /\ UNCHANGED <<initialized, session_id, messages, citations, trace, uuids, past_ids, turns,
                   pending>>

Next ==
    \/ PageLoad
    \/ ResetSession
    \/ \E prompt \in Prompts : \E response \in SessionResponses : SubmitPrompt(prompt, FALSE, response)
    \/ \E prompt \in Prompts : SubmitPrompt(prompt, TRUE, NoResponse)
    \/ \E prompt \in Prompts : WidgetDuringCall(PromptRequest(prompt))
    \/ WidgetDuringCall(ResetRequest)
    \/ AgentReturn
    \/ TurnFails
    \/ RunStopped

Spec == Init /\ [][Next]_vars

\* The first turn of a session, at the call of invoke_agent
FirstTurn(response) ==
    [status |-> "calling", prompt |-> <<"hello">>, raises |-> FALSE, response |-> response,
     before |-> [session_id |-> 1, messages |-> <<>>, citations |-> <<>>, trace |-> <<>>],
     output_text |-> PyStr(<<>>), raised_in |-> ""]

\* One turn of a fresh session: every raw text with every citations list,
\* and every trace mapping of at most MaxEvents events in all
InitTurn ==
    /\ initialized = TRUE
    /\ session_id = 1
    /\ uuids = 1
    /\ messages = <<[role |-> "user", content |-> PyStr(<<"hello">>)]>>
    /\ citations = <<>>
    /\ trace = <<>>
    /\ \/ \E text \in RawTexts : \E cits \in CitationLists :
             turn = FirstTurn(Response(text, cits, <<>>))
       \/ \E o1 \in KindOptions(TraceKinds[1], MaxEvents) :
          \E o2 \in KindOptions(TraceKinds[2], MaxEvents - Len(o1.events)) :
          \E o3 \in KindOptions(TraceKinds[3], MaxEvents - Len(o1.events) - Len(o2.events)) :
          \E o4 \in KindOptions(TraceKinds[4],
                        MaxEvents - Len(o1.events) - Len(o2.events) - Len(o3.events)) :
          \E o5 \in KindOptions(TraceKinds[5],
                        MaxEvents - Len(o1.events) - Len(o2.events) - Len(o3.events) - Len(o4.events)) :
             turn = FirstTurn(Response(<<"hello">>, <<>>, TraceOf(<<o1, o2, o3, o4, o5>>)))
    /\ sidebar = RenderSidebar(<<>>, <<>>)
    /\ past_ids = {}
    /\ turns = 1
    /\ pending = NoRequest

NextTurn == AgentReturn \/ TurnFails

SpecTurn == InitTurn /\ [][NextTurn]_vars

(* ------------------------------ claims -------------------------------- *)
Raw == turn.response.output_text

\* The call returned and the turn has ended
TurnDone == turn.status \in {"committed", "failed"} /\ ~turn.raises

Committed == turn.status = "committed"

LastContent == messages[Len(messages)].content

ParsesAsJson(t) == ~JSONDecodeError(t, FALSE)

TopType(t) == TypeAt(t, SkipWs(t, 1))

TopMembers(t) == Members(t, SkipWs(t, SkipWs(t, 1) + 1), FALSE)

TopKeys(t) == {TopMembers(t)[k].key : k \in 1..Len(TopMembers(t))}

IsObject(t) == ParsesAsJson(t) /\ TopType(t) = "dict"

IsEnvelope(t) == IsObject(t) /\ INSTRUCTION \in TopKeys(t) /\ RESULT \in TopKeys(t)

\* v is the value of the (last) `result` member of the object t
IsResultOf(v, t) ==
    \E k \in 1..Len(TopMembers(t)) :
        /\ TopMembers(t)[k].key = RESULT
        /\ \A k2 \in (k + 1)..Len(TopMembers(t)) : TopMembers(t)[k2].key # RESULT
        /\ v = PyValue(t, TopMembers(t)[k].at, FALSE)

\* C1: a raw text that parses to an object with both an `instruction` and a
\* `result` key is replaced by the value of `result`; a raw text that does
\* not parse, or parses to an object missing either key, is used unchanged
\* and the unwrapping raises nothing.
EnvelopeUnwrapping ==
    TurnDone =>
        /\ IsEnvelope(Raw) => turn.raised_in # "unwrap" /\ IsResultOf(turn.output_text, Raw)
        /\ (~ParsesAsJson(Raw) \/ (IsObject(Raw) /\ ~IsEnvelope(Raw))) =>
               turn.raised_in # "unwrap" /\ turn.output_text = PyStr(Raw)

\* C1 witness: an envelope was unwrapped into the assistant message
EnvelopeUnwrapped ==
    /\ Committed
    /\ IsEnvelope(Raw)
    /\ turn.response.citations = <<>>
    /\ IsResultOf(LastContent, Raw)
    /\ LastContent # PyStr(Raw)

\* C2 (as claimed): a raw text that parses to a JSON value that is not an
\* object is used unchanged and the turn completes without an error.
NonObjectJsonUsedUnchanged ==
    (TurnDone /\ ParsesAsJson(Raw) /\ ~IsObject(Raw)) =>
        /\ turn.status = "committed"
        /\ turn.output_text = PyStr(Raw)

\* t contains a placeholder %[<digits>]%
HasPlaceholder(t) == \E i \in 1..Len(t) : MatchEnd(t, i) # 0

\* C3 (as claimed): with an empty citations list no placeholder remains in
\* the stored assistant message.
EmptyCitationsRewritePlaceholders ==
    (Committed /\ turn.response.citations = <<>>) => ~HasPlaceholder(LastContent.chars)

\* C3 (amended): with an empty citations list the stored assistant message
\* is the text after unwrapping, unchanged: placeholders are not rewritten
\* and nothing is appended.
EmptyCitationsLeaveText ==
    (Committed /\ turn.response.citations = <<>>) => LastContent = turn.output_text

\* C3 witness: a placeholder stored as it came, with no citations
PlaceholderKept ==
    /\ Committed
    /\ turn.response.citations = <<>>
    /\ HasPlaceholder(turn.output_text.chars)
    /\ HasPlaceholder(LastContent.chars)

IsRegistered(trace_type) == trace_type \in DOMAIN trace_info_types_map

\* A traceId can be resolved from the event
Resolvable(trace_type, event) ==
    IF IsRegistered(trace_type)
    THEN \E j \in 1..Len(trace_info_types_map[trace_type]) :
             trace_info_types_map[trace_type][j] \in DOMAIN event
    ELSE "traceId" \in DOMAIN event

\* Event k of the kind is in a step of the sidebar
Shown(trace_type, k) ==
    \E p \in 1..Len(sidebar.phases) : \E n \in 1..Len(sidebar.phases[p].steps) :
        /\ sidebar.phases[p].steps[n].trace_type = trace_type
        /\ \E m \in 1..Len(sidebar.phases[p].steps[n].items) :
               sidebar.phases[p].steps[n].items[m].index = k

HasUnresolvable(tr) ==
    \E trace_type \in DOMAIN tr : \E k \in 1..Len(tr[trace_type]) :
        ~Resolvable(trace_type, tr[trace_type][k])

\* C4 (as claimed): an event from which no traceId can be resolved is
\* dropped, the render does not abort, and the other events of the kinds
\* with a registered list are still in steps, in all three phases.
UnresolvableEventsDropped ==
    (Committed /\ HasUnresolvable(trace)) =>
        /\ ~sidebar.raised
        /\ Len(sidebar.phases) = Len(Phases)
        /\ \A trace_type \in DOMAIN trace : \A k \in 1..Len(trace[trace_type]) :
               IF Resolvable(trace_type, trace[trace_type][k])
               THEN IsRegistered(trace_type) => Shown(trace_type, k)
               ELSE ~Shown(trace_type, k)

RECURSIVE StepsBefore(_)
\* Number of steps shown by the phases before phase p
StepsBefore(p) == IF p = 1 THEN 0 ELSE StepsBefore(p - 1) + Len(sidebar.phases[p - 1].steps)

\* C5: the steps shown are numbered 1, 2, ..., N in display order across the
\* phases; the first step of a phase has one more than the number of steps
\* of all earlier phases.
GlobalStepNumbering ==
    sidebar.rendered =>
        \A p \in 1..Len(sidebar.phases) : \A n \in 1..Len(sidebar.phases[p].steps) :
            sidebar.phases[p].steps[n].step_num = StepsBefore(p) + n

\* C5 witness: Orchestration goes on at 3 after two steps of Pre-Processing
NumberingContinues ==
    /\ sidebar.rendered
    /\ Len(sidebar.phases) >= 2
    /\ Len(sidebar.phases[1].steps) = 2
    /\ Len(sidebar.phases[2].steps) >= 1
    /\ sidebar.phases[2].steps[1].step_num = 3

RECURSIVE FlatReferences(_)
\* The retrieved references of all citations, in order
FlatReferences(cits) ==
    IF cits = <<>> THEN <<>>
    ELSE Head(cits).retrievedReferences \o FlatReferences(Tail(cits))

LocationLine(k, ref) == <<NL, "<br>", "[">> \o str(k) \o <<"]", " ", ref.uri>>

RECURSIVE LocationLines(_, _)
\* The lines of the references refs[k], refs[k+1], ...
LocationLines(refs, k) ==
    IF k > Len(refs) THEN <<>> ELSE LocationLine(k, refs[k]) \o LocationLines(refs, k + 1)

EndsWith(t, suffix) ==
    /\ Len(t) >= Len(suffix)
    /\ Slice(t, Len(t) - Len(suffix) + 1, Len(t)) = suffix

Count(t, sym) == Cardinality({i \in 1..Len(t) : t[i] = sym})

\* C6: with a non-empty citations list the assistant message ends with one
\* location line per retrieved reference, in citation order then reference
\* order, the k-th line carrying ordinal k.
LocationListNumbering ==
    (Committed /\ turn.response.citations # <<>>) =>
        LET refs == FlatReferences(turn.response.citations)
        IN  /\ EndsWith(LastContent.chars, <<NL>> \o LocationLines(refs, 1))
            /\ Count(LastContent.chars, "<br>") = Len(refs)

\* C6 witness: three references in two citations, numbered 1, 2, 3
ThreeLocationLines ==
    /\ Committed
    /\ Len(turn.response.citations) = 2
    /\ Len(turn.response.citations[1].retrievedReferences) = 2
    /\ Len(turn.response.citations[2].retrievedReferences) = 1
    /\ Count(LastContent.chars, "<br>") = 3
    /\ EndsWith(LastContent.chars, LocationLine(3, turn.response.citations[2].retrievedReferences[1]))

\* C7: after a failed turn the history is the history before the turn
\* followed by the submitted user message, and the session's id, citations
\* and trace are those from before the turn.
FailedTurnKeepsHistory ==
    turn.status = "failed" =>
        /\ messages = Append(turn.before.messages, [role |-> "user", content |-> PyStr(turn.prompt)])
        /\ session_id = turn.before.session_id
        /\ citations = turn.before.citations
        /\ trace = turn.before.trace

\* C7 witness: a turn failed in a session that has messages, citations and
\* a trace of an earlier turn
FailedAfterCommittedTurn ==
    /\ turn.status = "failed"
    /\ Len(turn.before.messages) = 2
    /\ turn.before.citations # <<>>
    /\ DOMAIN turn.before.trace # {}
    /\ Len(messages) = 3
    /\ messages[3].role = "user"

\* C8: init_session_state, from any state, leaves empty messages, citations
\* and trace and a session id the session never had before.
InitializeYieldsCleanSession ==
    [][uuids' # uuids =>
          /\ initialized'
          /\ messages' = <<>>
          /\ citations' = <<>>
          /\ trace' = <<>>
          /\ session_id' # session_id
          /\ session_id' \notin past_ids']_vars

\* C8 witness: the session was reset after a prompt had been submitted
ResetAfterTurn ==
    /\ initialized
    /\ turn.status = "none"
    /\ Cardinality(past_ids) = 1
    /\ turns > 0
    /\ messages = <<>>
    /\ citations = <<>>
    /\ session_id \notin past_ids

IsPrefix(a, b) == Len(a) <= Len(b) /\ Slice(b, 1, Len(a)) = a

\* C9: a step that is not an init_session_state keeps the message history
\* as a prefix of the new one.
AppendOnlyHistory == [][uuids' = uuids => IsPrefix(messages, messages')]_vars

\* C9 witness: a failed turn and then a committed one, three messages
ThreeMessagesAppended ==
    /\ Committed
    /\ Len(messages) = 3
    /\ messages[1].role = "user"
    /\ messages[2].role = "user"
    /\ messages[3].role = "assistant"

\* Phase p of the sidebar shows the text None
ShowsNone(p) == p <= Len(sidebar.phases) /\ sidebar.phases[p].none

NoKindPresent(tr, p) ==
    \A j \in 1..Len(trace_types_map[Phases[p]]) : trace_types_map[Phases[p]][j] \notin DOMAIN tr

\* C10 (as claimed): a phase shows None exactly when none of its trace kinds
\* is a key of the stored trace, and such a phase shows no step.
NoneIffNoKindPresent ==
    sidebar.rendered =>
        \A p \in 1..Len(Phases) :
            /\ ShowsNone(p) <=> NoKindPresent(trace, p)
            /\ ShowsNone(p) => sidebar.phases[p].steps = <<>>

\* C11: after a committed turn the session's citations and trace are those
\* of the turn's response, nothing of an earlier turn is left.
WholesaleReplacement ==
    Committed =>
        /\ citations = turn.response.citations
        /\ trace = turn.response.trace

\* C11 witness: a response without citations and trace replaced those of
\* an earlier turn
EarlierCitationsReplaced ==
    /\ Committed
    /\ turn.before.citations # <<>>
    /\ DOMAIN turn.before.trace # {}
    /\ turn.response.citations = <<>>
    /\ DOMAIN turn.response.trace = {}
    /\ citations = <<>>
    /\ DOMAIN trace = {}

RECURSIVE PlaceholderDigits(_, _)
\* The digits of the placeholders of t from i on, left to right, a
\* placeholder starting after the end of the one before
PlaceholderDigits(t, i) ==
    IF i > Len(t) THEN <<>>
    ELSE IF MatchEnd(t, i) # 0
    THEN <<Slice(t, i + 2, MatchEnd(t, i) - 3)>> \o PlaceholderDigits(t, MatchEnd(t, i))
    ELSE PlaceholderDigits(t, i + 1)

RECURSIVE MarkerDigits(_, _)
\* The digits of the markers <sup>[digits]</sup> of t from i on
MarkerDigits(t, i) ==
    IF i > Len(t) THEN <<>>
    ELSE IF t[i] = "<sup>"
    THEN LET e == CHOOSE e \in (i + 1)..Len(t) :
                      t[e] = "</sup>" /\ \A e2 \in (i + 1)..(e - 1) : t[e2] # "</sup>"
         IN  <<Slice(t, i + 2, e - 2)>> \o MarkerDigits(t, e + 1)
    ELSE MarkerDigits(t, i + 1)

\* C12: with a non-empty citations list the markers of the stored message
\* carry, in order, the digits of the placeholders of the text, whatever the
\* location list counts, and no placeholder remains; the digits of every
\* occurrence of %[n]% are still in the message as [n].
PlaceholdersBecomeMarkers ==
    (Committed /\ turn.response.citations # <<>>) =>
        /\ MarkerDigits(LastContent.chars, 1) = PlaceholderDigits(turn.output_text.chars, 1)
        /\ ~HasPlaceholder(LastContent.chars)
        /\ \A i \in 1..Len(turn.output_text.chars) :
               MatchEnd(turn.output_text.chars, i) # 0 =>
                   IsSubstring(Slice(turn.output_text.chars, i + 1,
                                     MatchEnd(turn.output_text.chars, i) - 2),
                               LastContent.chars)

\* C12 witness: the placeholders %[12]% and %[3]% became markers 12 and 3
\* next to a location list of one line
TwoMarkersOneLocation ==
    /\ Committed
    /\ Count(LastContent.chars, "<br>") = 1
    /\ PlaceholderDigits(turn.output_text.chars, 1) = <<(<<"1", "2">>), <<"3">>>>
    /\ MarkerDigits(LastContent.chars, 1) = <<(<<"1", "2">>), <<"3">>>>

RECURSIVE StepsFrom(_)
\* The steps shown by the phases from p on, in display order
StepsFrom(p) ==
    IF p > Len(sidebar.phases) THEN <<>> ELSE sidebar.phases[p].steps \o StepsFrom(p + 1)

AllSteps == StepsFrom(1)

\* The traceId resolved from an event from which one can be resolved: that
\* of the first registered info field the event has, or the top-level one
ResolvedId(trace_type, event) ==
    IF IsRegistered(trace_type)
    THEN LET fs == trace_info_types_map[trace_type]
             first == CHOOSE j \in 1..Len(fs) :
                          fs[j] \in DOMAIN event /\ \A j2 \in 1..(j - 1) : fs[j2] \notin DOMAIN event
         IN  event[fs[first]]
    ELSE event["traceId"]

\* Event k of the kind is an item of the step
InStep(step, trace_type, k) ==
    /\ step.trace_type = trace_type
    /\ \E m \in 1..Len(step.items) : step.items[m].index = k

\* C13 (as claimed): in a render that does not raise, every event of a kind
\* without a registered list that has a top-level traceId is in the step of
\* that traceId.
GuardrailEventsKept ==
    (sidebar.rendered /\ ~sidebar.raised) =>
        \A trace_type \in DOMAIN trace : \A k \in 1..Len(trace[trace_type]) :
            (~IsRegistered(trace_type) /\ Resolvable(trace_type, trace[trace_type][k])) =>
                \E n \in 1..Len(AllSteps) :
                    /\ InStep(AllSteps[n], trace_type, k)
                    /\ AllSteps[n].trace_id = ResolvedId(trace_type, trace[trace_type][k])

\* C14 (as claimed): within one phase, two events shown with the same
\* resolved traceId are in the same step, and no two steps of the phase
\* have the same traceId.
StepsGroupByTraceId ==
    sidebar.rendered =>
        \A p \in 1..Len(sidebar.phases) :
            \A n \in 1..Len(sidebar.phases[p].steps) : \A m \in 1..Len(sidebar.phases[p].steps) :
                n # m =>
                    /\ sidebar.phases[p].steps[n].trace_id # sidebar.phases[p].steps[m].trace_id
                    /\ \A i \in 1..Len(sidebar.phases[p].steps[n].items) :
                       \A j \in 1..Len(sidebar.phases[p].steps[m].items) :
                           ResolvedId(sidebar.phases[p].steps[n].trace_type,
                                      trace[sidebar.phases[p].steps[n].trace_type]
                                           [sidebar.phases[p].steps[n].items[i].index])
                           # ResolvedId(sidebar.phases[p].steps[m].trace_type,
                                        trace[sidebar.phases[p].steps[m].trace_type]
                                             [sidebar.phases[p].steps[m].items[j].index])

\* C14 (amended): steps are groups by traceId within one trace kind: every
\* event shown is in a step of its kind and of its resolved traceId, and no
\* two steps of one kind have the same traceId.
StepsGroupByTraceIdPerKind ==
    sidebar.rendered =>
        /\ \A n \in 1..Len(AllSteps) : \A m \in 1..Len(AllSteps) :
               (n # m /\ AllSteps[n].trace_type = AllSteps[m].trace_type) =>
                   AllSteps[n].trace_id # AllSteps[m].trace_id
        /\ \A n \in 1..Len(AllSteps) : \A m \in 1..Len(AllSteps[n].items) :
               LET trace_type == AllSteps[n].trace_type
                   k == AllSteps[n].items[m].index
               IN  /\ trace_type \in DOMAIN trace
                   /\ k \in 1..Len(trace[trace_type])
                   /\ Resolvable(trace_type, trace[trace_type][k])
                   /\ ResolvedId(trace_type, trace[trace_type][k]) = AllSteps[n].trace_id

\* C14 witness: Pre-Processing shows two steps of one traceId, one of each
\* of its kinds, next to a step of two events of one kind
SameIdInTwoKinds ==
    /\ sidebar.rendered
    /\ Len(sidebar.phases) >= 1
    /\ Len(sidebar.phases[1].steps) = 2
    /\ sidebar.phases[1].steps[1].trace_id = sidebar.phases[1].steps[2].trace_id
    /\ sidebar.phases[1].steps[1].trace_type = "preGuardrailTrace"
    /\ sidebar.phases[1].steps[2].trace_type = "preProcessingTrace"
    /\ Len(sidebar.phases[1].steps[2].items) = 2

\* C15 (as claimed): every event of a kind with a registered list that has
\* a registered field is shown, whole, in exactly one step, that of the
\* traceId in the first registered field it has.
FirstMatchGrouping ==
    sidebar.rendered =>
        \A trace_type \in DOMAIN trace : \A k \in 1..Len(trace[trace_type]) :
            (IsRegistered(trace_type) /\ Resolvable(trace_type, trace[trace_type][k])) =>
                /\ Cardinality({n \in 1..Len(AllSteps) : InStep(AllSteps[n], trace_type, k)}) = 1
                /\ \A n \in 1..Len(AllSteps) :
                       InStep(AllSteps[n], trace_type, k) =>
                           /\ AllSteps[n].trace_id = ResolvedId(trace_type, trace[trace_type][k])
                           /\ \A m \in 1..Len(AllSteps[n].items) :
                                  AllSteps[n].items[m].index = k => ~AllSteps[n].items[m].wrapped
                           /\ Cardinality({m \in 1..Len(AllSteps[n].items) :
                                              AllSteps[n].items[m].index = k}) = 1

\* Some event of the kind resolves to the traceId
Occurs(trace_type, trace_id) ==
    /\ trace_type \in DOMAIN trace
    /\ \E k \in 1..Len(trace[trace_type]) :
           /\ Resolvable(trace_type, trace[trace_type][k])
           /\ ResolvedId(trace_type, trace[trace_type][k]) = trace_id

\* Index of the first event of the kind that resolves to the traceId
FirstOccurrence(trace_type, trace_id) ==
    CHOOSE k \in 1..Len(trace[trace_type]) :
        /\ Resolvable(trace_type, trace[trace_type][k])
        /\ ResolvedId(trace_type, trace[trace_type][k]) = trace_id
        /\ \A k2 \in 1..(k - 1) :
               ~(/\ Resolvable(trace_type, trace[trace_type][k2])
                 /\ ResolvedId(trace_type, trace[trace_type][k2]) = trace_id)

\* C16: the steps of a trace kind are shown in the order in which their
\* traceIds first occur in the kind's event list, one step for a traceId,
\* and the events of a step are in their original order.
FirstSeenOrdering ==
    sidebar.rendered =>
        /\ \A n \in 1..Len(AllSteps) : Occurs(AllSteps[n].trace_type, AllSteps[n].trace_id)
        /\ \A n \in 1..Len(AllSteps) : \A m \in (n + 1)..Len(AllSteps) :
               AllSteps[n].trace_type = AllSteps[m].trace_type =>
                   FirstOccurrence(AllSteps[n].trace_type, AllSteps[n].trace_id)
                       < FirstOccurrence(AllSteps[m].trace_type, AllSteps[m].trace_id)
        /\ \A n \in 1..Len(AllSteps) : \A m \in 1..(Len(AllSteps[n].items) - 1) :
               AllSteps[n].items[m].index < AllSteps[n].items[m + 1].index

\* C16 witness: a traceId seen again after another one stays in the first
\* step, with its events 1 and 3
RecurringIdKeepsStep ==
    /\ sidebar.rendered
    /\ Len(AllSteps) = 2
    /\ AllSteps[1].trace_type = AllSteps[2].trace_type
    /\ Len(AllSteps[1].items) = 2
    /\ AllSteps[1].items[1].index = 1
    /\ AllSteps[1].items[2].index = 3
    /\ AllSteps[2].items[1].index = 2

RECURSIVE EntryLines(_, _)
\* The location lines that the sidebar entries entries[k], entries[k+1], ...
\* stand for: number and uri of each
EntryLines(entries, k) ==
    IF k > Len(entries) THEN <<>>
    ELSE LocationLine(entries[k].citation_num, entries[k].retrievedReference)
         \o EntryLines(entries, k + 1)

\* C18: after a committed turn the sidebar has as many `Citation [n]`
\* entries as the assistant message has location lines, entry n is numbered
\* n and holds the n-th retrieved reference in citation order then reference
\* order, and the location lines of the message are those of the entries.
CitationCountersAgree ==
    Committed =>
        LET refs == FlatReferences(turn.response.citations)
        IN  /\ Len(sidebar.citations) = Count(LastContent.chars, "<br>")
            /\ Len(sidebar.citations) = Len(refs)
            /\ \A n \in 1..Len(sidebar.citations) :
                   /\ sidebar.citations[n].citation_num = n
                   /\ sidebar.citations[n].retrievedReference = refs[n]
            /\ turn.response.citations # <<>> =>
                   EndsWith(LastContent.chars, <<NL>> \o EntryLines(sidebar.citations, 1))

====
